---- MODULE Spec2Model ----
(***************************************************************************)
(* Model of src/main.rs: the abstract evaluator for callPackage-style Nix  *)
(* modules.  NixObject / NixSet are the abstract value domain, Scope is    *)
(* the environment, eval_object is the tree-walking evaluator and the      *)
(* Main* actions are the steps of main().                                  *)
(*                                                                         *)
(* A state of the main specification is one call frame of eval_object on   *)
(* a path of the call tree: `scope` is the frame's scope argument and the  *)
(* sub-expressions of the analysed module are drawn, with \E, when the     *)
(* evaluator reaches them (the evaluator never looks ahead in the tree).   *)
(***************************************************************************)
EXTENDS Integers, Sequences, FiniteSets, TLC

VARIABLES pc, ast, scope, new_scope, chain, expr, result, depth, call

vars == <<pc, ast, scope, new_scope, chain, expr, result, depth, call>>

(***************************************************************************)
(* Bounds of the model.                                                    *)
(***************************************************************************)
\* number of with / let-entry derivations followed below the module body
MaxDepth == 3
\* number of destructured fields of the top-level pattern
MaxPatEntries == 2
\* length of a ConfigVal path given to NixSet::lookup as an input
MaxPath == 2

\* identifiers and attribute names occurring in the analysed modules
Names == {"lib", "pkgs", "config", "formats", "json", "x", "args"}

(***************************************************************************)
(* Option, Result and the abstract value domain.                           *)
(***************************************************************************)
None == [tag |-> "None"]
Some(v) == [tag |-> "Some", val |-> v]

Ok(v) == [tag |-> "Ok", val |-> v]
\* an eyre! error: the format string and its argument
Err(msg, arg) == [tag |-> "Err", msg |-> msg, arg |-> arg]
\* an eyre! error whose argument is a count / a value printed with {:#?}
ErrLen(msg, len) == [tag |-> "Err", msg |-> msg, len |-> len]
ErrObj(msg, obj) == [tag |-> "Err", msg |-> msg, obj |-> obj]
\* todo!() aborts the process
Panic(at) == [tag |-> "Panic", at |-> at]

EmptyMap == [k \in {} |-> None]
Insert(m, k, v) == [j \in DOMAIN m \cup {k} |-> IF j = k THEN v ELSE m[j]]

Set(s) == [tag |-> "Set", set |-> s]
Nixpkg(pkg) == [tag |-> "Nixpkg", pkg |-> pkg]
FormatFactory(t) == [tag |-> "FormatFactory", format_type |-> t]

Dyn(m) == [tag |-> "Dyn", map |-> m]
CallpkgArgs == [tag |-> "CallpkgArgs"]
Lib == [tag |-> "Lib"]
Nixpkgs == [tag |-> "Nixpkgs"]
Config == [tag |-> "Config"]
ConfigVal(path) == [tag |-> "ConfigVal", path |-> path]
PkgsFormats == [tag |-> "PkgsFormats"]

try_into_set(self) ==
    CASE self.tag = "Set" -> Ok(self.set)
      [] self.tag = "Nixpkg" -> Err("nixpkg cannot be treated as set", self.pkg)
      [] self.tag = "FormatFactory" ->
            Err("format factory cannot be treated as set", self.format_type)

apply(self, arg) == ErrObj("cannot apply lambda of type", self)

CALLPACKAGE_ARGS == [k \in {"lib", "pkgs", "config"} |->
                        CASE k = "lib" -> Lib
                          [] k = "pkgs" -> Nixpkgs
                          [] k = "config" -> Config]

LIB == EmptyMap

lookup_nixpkg(name) ==
    IF name = "formats" THEN Set(PkgsFormats) ELSE Nixpkg(name)

\* the closure h of NixSet::lookup: a static table's member as a Set
TableGet(m, k) == IF k \in DOMAIN m THEN Some(Set(m[k])) ELSE None

\* NixSet::lookup with the ConfigVal arm putting the new name first
NixSet_lookup_prepend(self, k) ==
    CASE self.tag = "Dyn" ->
            IF k \in DOMAIN self.map THEN Some(self.map[k]) ELSE None
      [] self.tag = "CallpkgArgs" -> TableGet(CALLPACKAGE_ARGS, k)
      [] self.tag = "Lib" -> TableGet(LIB, k)
      [] self.tag = "Nixpkgs" -> Some(lookup_nixpkg(k))
      [] self.tag = "Config" -> Some(Set(ConfigVal(<<k>>)))
      [] self.tag = "ConfigVal" -> Some(Set(ConfigVal(<<k>> \o self.path)))
      [] self.tag = "PkgsFormats" -> Some(FormatFactory(k))

NixSet_lookup(self, k) ==
    CASE self.tag = "Dyn" ->
            IF k \in DOMAIN self.map THEN Some(self.map[k]) ELSE None
      [] self.tag = "CallpkgArgs" -> TableGet(CALLPACKAGE_ARGS, k)
      [] self.tag = "Lib" -> TableGet(LIB, k)
      [] self.tag = "Nixpkgs" -> Some(lookup_nixpkg(k))
      [] self.tag = "Config" -> Some(Set(ConfigVal(<<k>>)))
      [] self.tag = "ConfigVal" -> Some(Set(ConfigVal(Append(self.path, k))))
      [] self.tag = "PkgsFormats" -> Some(FormatFactory(k))

(***************************************************************************)
(* Scope.                                                                  *)
(***************************************************************************)
MkScope(items, with_namespaces) ==
    [items |-> items, with_namespaces |-> with_namespaces]

Scope_new == MkScope(EmptyMap, <<>>)

\* the first index of with_namespaces, front to back, whose lookup succeeds
FirstHit(s, k) ==
    LET hits == {i \in 1..Len(s.with_namespaces) :
                    NixSet_lookup(s.with_namespaces[i], k) # None}
    IN  IF hits = {} THEN 0
        ELSE CHOOSE i \in hits : \A j \in hits : i <= j

Scope_lookup(self, k) ==
    IF k \in DOMAIN self.items THEN Some(self.items[k])
    ELSE IF FirstHit(self, k) = 0 THEN None
    ELSE NixSet_lookup(self.with_namespaces[FirstHit(self, k)], k)

(***************************************************************************)
(* The syntax tree handed over by rnix.  A child the lossless tree lacks   *)
(* (namespace(), body(), value(), attrpath() returning None) is NoNode.    *)
(***************************************************************************)
NoNode == [kind |-> "none"]
\* a missing attrpath() child
NoPath == <<NoNode>>

Ident(name) == [kind |-> "ident", name |-> name]
With(namespace, body) == [kind |-> "with", namespace |-> namespace, body |-> body]
LetIn(entries, body) == [kind |-> "letin", entries |-> entries, body |-> body]
AttrSet(rec, entries) == [kind |-> "attrset", rec |-> rec, entries |-> entries]
Select(e, attrpath) == [kind |-> "select", expr |-> e, attrpath |-> attrpath]
Apply(lambda, argument) ==
    [kind |-> "apply", lambda |-> lambda, argument |-> argument]
\* the expression kinds eval_object has no arm for
OtherKinds == {"assert", "error", "ifelse", "str", "path", "literal", "lambda",
               "legacylet", "list", "binop", "paren", "root", "unaryop",
               "hasattr"}
Other(kind) == [kind |-> kind]

AttrIdent(name) == [kind |-> "ident", name |-> name]
AttrDynamic == [kind |-> "dynamic"]
AttrStr == [kind |-> "str"]

AttrpathValue(attrpath, value) ==
    [kind |-> "attrpathvalue", attrpath |-> attrpath, value |-> value]
Inherit == [kind |-> "inherit"]
\* `name = value;`
Bind(name, value) == AttrpathValue(<<AttrIdent(name)>>, value)

token_type(e) == e.kind

(***************************************************************************)
(* eval_object.  A Result is Ok(v), Err(msg, arg) (the `?` operator hands  *)
(* it to the caller) or Panic(at) (todo!() aborts the evaluation).         *)
(***************************************************************************)
IsOk(r) == r.tag = "Ok"

\* Expr::With: items are promoted to a with_namespaces entry, then the
\* namespace is pushed after it
with_scope(s, namespace) ==
    MkScope(EmptyMap,
            Append(Append(s.with_namespaces, Dyn(s.items)), namespace))

\* the scope eval_object passes to the body of a `let`
letin_body_scope(s, ns) == s

RECURSIVE eval_object(_, _)
RECURSIVE let_entry(_, _)
RECURSIVE let_entries(_, _, _)
RECURSIVE set_entries(_, _, _)
RECURSIVE select_fold(_, _, _)

\* one iteration of the LetIn loop: Ok(new_scope with the binding) or a failure
let_entry(ns, entry) ==
    IF entry.kind = "inherit" THEN Panic("let inherit")
    ELSE IF entry.attrpath = NoPath THEN Err("let entry without attrpath", "")
    ELSE IF Len(entry.attrpath) # 1
    THEN ErrLen("expect single attr in let attrpath", Len(entry.attrpath))
    ELSE IF entry.attrpath[1].kind # "ident"
    THEN Err("unexpected let attr type", "")
    ELSE IF entry.value = NoNode THEN Err("let binding without value", "")
    ELSE LET v == eval_object(ns, entry.value)
         IN  IF ~IsOk(v) THEN v
             ELSE Ok(MkScope(Insert(ns.items, entry.attrpath[1].name, v.val),
                             ns.with_namespaces))

\* the LetIn loop from entry i on, new_scope being ns
let_entries(ns, entries, i) ==
    IF i > Len(entries) THEN Ok(ns)
    ELSE LET r == let_entry(ns, entries[i])
         IN  IF ~IsOk(r) THEN r ELSE let_entries(r.val, entries, i + 1)

\* the attrs of a set entry, in order: the first that is no identifier
FirstNonIdent(attrpath) ==
    LET bad == {j \in 1..Len(attrpath) : attrpath[j].kind # "ident"}
    IN  IF bad = {} THEN 0 ELSE CHOOSE j \in bad : \A l \in bad : j <= l

\* the AttrSet loop from entry i on and the todo!() that follows it.  set_vals
\* only ever receives empty Dyn sets for leading segments and is never read
\* before the todo!(), so only the control flow is kept.
set_entries(ns, entries, i) ==
    IF i > Len(entries) THEN Panic("attrset")
    ELSE LET entry == entries[i] IN
         IF entry.kind # "attrpathvalue" THEN Panic("attrset entry")
         ELSE IF entry.value = NoNode THEN Err("set entry without value", "")
         ELSE LET v == eval_object(ns, entry.value)
              IN  IF ~IsOk(v) THEN v
                  ELSE IF entry.attrpath = NoPath
                  THEN Err("set entry without attrpath", "")
                  ELSE IF FirstNonIdent(entry.attrpath) # 0
                  THEN Err("unimplemented", "")
                  ELSE set_entries(ns, entries, i + 1)

\* the try_fold of Expr::Select from attr i on
select_fold(prev, attrs, i) ==
    IF i > Len(attrs) THEN Ok(prev)
    ELSE IF attrs[i].kind # "ident" THEN Panic("select attr")
    ELSE LET s == try_into_set(prev)
         IN  IF ~IsOk(s) THEN s
             ELSE LET o == NixSet_lookup(s.val, attrs[i].name)
                  IN  IF o = None THEN Err("value not in scope", attrs[i].name)
                      ELSE select_fold(o.val, attrs, i + 1)

eval_object(s, e) ==
    CASE e.kind = "with" ->
            IF e.namespace = NoNode THEN Err("with has no namespace", "")
            ELSE LET n == eval_object(s, e.namespace)
                     t == try_into_set(n.val)
                 IN  IF ~IsOk(n) THEN n
                     ELSE IF ~IsOk(t) THEN t
                     ELSE IF e.body = NoNode THEN Err("with has no body", "")
                     ELSE eval_object(with_scope(s, t.val), e.body)
      [] e.kind = "letin" ->
            LET r == let_entries(s, e.entries, 1)
            IN  IF ~IsOk(r) THEN r
                ELSE IF e.body = NoNode THEN Err("letin without body", "")
                ELSE eval_object(letin_body_scope(s, r.val), e.body)
      [] e.kind = "attrset" -> set_entries(s, e.entries, 1)
      [] e.kind = "ident" ->
            LET o == Scope_lookup(s, e.name)
            IN  IF o = None THEN Err("value not in scope", e.name) ELSE Ok(o.val)
      [] e.kind = "select" ->
            IF e.expr = NoNode THEN Err("select without expr", "")
            ELSE LET initial == eval_object(s, e.expr)
                 IN  IF ~IsOk(initial) THEN initial
                     ELSE IF e.attrpath = NoPath
                     THEN Err("select without attrpath", "")
                     ELSE select_fold(initial.val, e.attrpath, 1)
      [] e.kind = "apply" ->
            IF e.lambda = NoNode THEN Err("apply without lambda", "")
            ELSE LET lambda == eval_object(s, e.lambda)
                 IN  IF ~IsOk(lambda) THEN lambda
                     ELSE IF e.argument = NoNode
                     THEN Err("apply without argument", "")
                     ELSE LET argument == eval_object(s, e.argument)
                          IN  IF ~IsOk(argument) THEN argument
                              ELSE apply(lambda.val, argument.val)
      [] OTHER -> Err("cannot eval object of type", token_type(e))

(***************************************************************************)
(* Inputs: the sub-expressions a module may hold at each position.         *)
(***************************************************************************)
\* names a top-level pattern may destructure; "" is an entry without ident
PatNames == {"lib", "pkgs", "config", "x", ""}
\* names of a catch-all `@` binding; "" is a bind without ident
BindNames == {"args", "lib", ""}
\* names a `let` entry may bind
LetNames == {"x", "pkgs"}

Sel(base, names) ==
    Select(Ident(base), [i \in 1..Len(names) |-> AttrIdent(names[i])])

\* namespace expressions of a `with`
NsExprs ==
    {Ident(n) : n \in {"lib", "pkgs", "config", "args", "x"}}
    \cup {Sel("pkgs", <<"formats">>), Sel("config", <<"x">>), Sel("pkgs", <<"x">>)}

\* value expressions of a `let` entry
ValExprs == {Ident("pkgs"), Ident("lib"), Ident("x"), Sel("config", <<"x">>)}

LetEntryInputs ==
    {Bind(n, v) : n \in LetNames, v \in ValExprs}
    \cup {Inherit,
          Bind("x", NoNode),
          AttrpathValue(NoPath, Ident("pkgs")),
          AttrpathValue(<<AttrIdent("x"), AttrIdent("json")>>, Ident("pkgs")),
          AttrpathValue(<<AttrStr>>, Ident("pkgs"))}

IdentExprs == {Ident(n) : n \in Names}

SelectExprs ==
    {Sel(b, p) : b \in {"pkgs", "config", "lib", "args"},
                 p \in {<<"formats">>, <<"x">>, <<"formats", "json">>,
                        <<"x", "json">>, <<"pkgs", "x">>}}
    \cup {Select(Ident("pkgs"), <<AttrStr>>),
          Select(Ident("pkgs"), <<AttrIdent("x"), AttrDynamic>>),
          Select(Ident("config"), <<AttrIdent("x"), AttrDynamic>>),
          Select(NoNode, <<AttrIdent("x")>>),
          Select(Ident("pkgs"), NoPath)}

ApplyExprs ==
    {Apply(f, a) : f \in {Sel("pkgs", <<"formats", "json">>), Ident("pkgs"),
                          Sel("pkgs", <<"x">>), Ident("x")},
                   a \in {Ident("config"), Sel("config", <<"x">>),
                          Sel("pkgs", <<"x">>), AttrSet(FALSE, <<>>)}}
    \cup {Apply(NoNode, Ident("pkgs")), Apply(Ident("pkgs"), NoNode)}

LetInExprs ==
    {LetIn(<<Bind(n, v)>>, Ident(b)) :
        n \in LetNames, v \in ValExprs, b \in LetNames}
    \cup {LetIn(<<Bind("x", Ident(a)), Bind(a, Ident("lib"))>>, Ident(b)) :
            a \in LetNames, b \in {"lib", "x"}}
    \cup {LetIn(<<e>>, Ident("pkgs")) : e \in LetEntryInputs \ {Bind(n, v) : n \in LetNames, v \in ValExprs}}
    \cup {LetIn(<<>>, Ident("pkgs")), LetIn(<<Bind("x", Ident("pkgs"))>>, NoNode)}

AttrSetExprs ==
    {AttrSet(r, <<AttrpathValue(<<AttrIdent("x"), AttrIdent("json")>>, Ident(v)),
                  AttrpathValue(<<AttrIdent("x"), AttrIdent("formats")>>, Ident(w))>>) :
        r \in BOOLEAN, v \in {"pkgs", "x"}, w \in {"config"}}
    \cup {AttrSet(FALSE, <<Bind("x",
            AttrSet(FALSE, <<Bind("json", Ident(v)), Bind("formats", Ident(w))>>))>>) :
        v \in {"pkgs", "x"}, w \in {"config"}}
    \cup {AttrSet(FALSE, <<>>),
          AttrSet(FALSE, <<Inherit>>),
          AttrSet(FALSE, <<Bind("x", NoNode)>>),
          AttrSet(FALSE, <<AttrpathValue(NoPath, Ident("pkgs"))>>),
          AttrSet(FALSE, <<AttrpathValue(<<AttrIdent("x"), AttrStr>>, Ident("pkgs"))>>)}

WithExprs ==
    {With(a, With(b, Ident(n))) :
        a \in {Ident("pkgs"), Ident("config")}, b \in {Ident("lib"), Ident("config")},
        n \in {"x", "lib"}}

OtherExprs == {Other(t) : t \in OtherKinds}

\* complete expressions evaluated by one call of eval_object
LeafExprs ==
    IdentExprs \cup SelectExprs \cup ApplyExprs \cup LetInExprs
    \cup AttrSetExprs \cup WithExprs \cup OtherExprs

(***************************************************************************)
(* State.                                                                  *)
(*   pc         where main / eval_object stands                            *)
(*   ast        the part of the top-level expression main has read         *)
(*   scope      the scope argument of the current eval_object frame        *)
(*   new_scope  the LetIn arm's local scope while its loop runs            *)
(*   chain      history: the derivations that led to the scope handed to   *)
(*              the next eval_object call, outermost first; an "items"     *)
(*              layer holds explicit bindings, a "with" layer a namespace  *)
(*   expr       the expression node evaluated last                         *)
(*   result     how the evaluation ended                                   *)
(*   depth      number of with / let-entry derivations so far              *)
(*   call       a call of NixSet::lookup with its return value             *)
(***************************************************************************)
NoResult == [tag |-> "NoResult"]
NoCall == [tag |-> "NoCall"]
Unread == "unread"

ItemsLayer(items) == [kind |-> "items", items |-> items]
WithLayer(set) == [kind |-> "with", set |-> set]

SetLast(seq, v) == [seq EXCEPT ![Len(seq)] = v]
Front(seq) == SubSeq(seq, 1, Len(seq) - 1)

Init ==
    /\ pc = "parse"
    /\ ast = [expr |-> Unread, param |-> Unread, pat_bind |-> Unread,
              pat_entries |-> <<>>]
    /\ scope = Scope_new
    /\ new_scope = Scope_new
    /\ chain = <<ItemsLayer(EmptyMap)>>
    /\ expr = NoNode
    /\ result = NoResult
    /\ depth = 0
    /\ call = NoCall

Finish(r) ==
    /\ pc' = "done"
    /\ result' = r

\* main: parse the file and require a lambda
MainParse(input) ==
    /\ pc = "parse"
    /\ ast' = [ast EXCEPT !.expr = input]
    /\ IF input = "parse_error" THEN Finish(Err("parse error", ""))
       ELSE IF input = "empty" THEN Finish(Err("file is empty", ""))
       ELSE IF input # "lambda"
       THEN Finish(Err("file does not contain a lambda", ""))
       ELSE pc' = "param" /\ UNCHANGED result
    /\ UNCHANGED <<scope, new_scope, chain, expr, depth, call>>

\* main: the lambda's parameter must be a pattern
MainParam(param) ==
    /\ pc = "param"
    /\ ast' = [ast EXCEPT !.param = param]
    /\ IF param = "none"
       THEN Finish(Err("top-level lambda does not have a param", ""))
       ELSE IF param # "pattern"
       THEN Finish(Err("top-level lambda does not destructure its argument", ""))
       ELSE pc' = "bind" /\ UNCHANGED result
    /\ UNCHANGED <<scope, new_scope, chain, expr, depth, call>>

BindScope(s, name, v) == MkScope(Insert(s.items, name, v), s.with_namespaces)

\* main: the `@` binding, if any ("none": the pattern has no pat_bind)
MainBind(bind) ==
    /\ pc = "bind"
    /\ ast' = [ast EXCEPT !.pat_bind = bind]
    /\ IF bind = "none"
       THEN pc' = "entries" /\ UNCHANGED <<result, scope, new_scope, chain>>
       ELSE IF bind = ""
       THEN Finish(Err("bind without ident", ""))
            /\ UNCHANGED <<scope, new_scope, chain>>
       ELSE /\ scope' = BindScope(scope, bind, Set(CallpkgArgs))
            /\ new_scope' = scope'
            /\ chain' = <<ItemsLayer(scope'.items)>>
            /\ pc' = "entries"
            /\ UNCHANGED result
    /\ UNCHANGED <<expr, depth, call>>

\* MainEntry binding the field to the whole argument record
MainEntry_whole_record(ident) ==
    /\ pc = "entries"
    /\ Len(ast.pat_entries) < MaxPatEntries
    /\ ast' = [ast EXCEPT !.pat_entries = Append(@, ident)]
    /\ IF ident = ""
       THEN Finish(Err("pat entry without ident", ""))
            /\ UNCHANGED <<scope, new_scope, chain>>
       ELSE IF ident \notin DOMAIN CALLPACKAGE_ARGS
       THEN Finish(Err("unknown callPackage arg", ident))
            /\ UNCHANGED <<scope, new_scope, chain>>
       ELSE /\ scope' = BindScope(scope, ident, Set(CallpkgArgs))
            /\ new_scope' = scope'
            /\ chain' = <<ItemsLayer(scope'.items)>>
            /\ UNCHANGED <<pc, result>>
    /\ UNCHANGED <<expr, depth, call>>

\* main: one iteration of the loop over pat_entries
MainEntry(ident) ==
    /\ pc = "entries"
    /\ Len(ast.pat_entries) < MaxPatEntries
    /\ ast' = [ast EXCEPT !.pat_entries = Append(@, ident)]
    /\ IF ident = ""
       THEN Finish(Err("pat entry without ident", ""))
            /\ UNCHANGED <<scope, new_scope, chain>>
       ELSE IF ident \notin DOMAIN CALLPACKAGE_ARGS
       THEN Finish(Err("unknown callPackage arg", ident))
            /\ UNCHANGED <<scope, new_scope, chain>>
       ELSE /\ scope' = BindScope(scope, ident, Set(CALLPACKAGE_ARGS[ident]))
            /\ new_scope' = scope'
            /\ chain' = <<ItemsLayer(scope'.items)>>
            /\ UNCHANGED <<pc, result>>
    /\ UNCHANGED <<expr, depth, call>>

\* main: the loop is over; eval_object is called on the lambda's body
MainBody(has_body) ==
    /\ pc = "entries"
    /\ IF has_body THEN pc' = "eval" /\ UNCHANGED result
       ELSE Finish(Err("lambda without body", ""))
    /\ UNCHANGED <<ast, scope, new_scope, chain, expr, depth, call>>

\* eval_object, Expr::With: up to the call on the body
EvalWith(namespace, has_body) ==
    /\ pc = "eval"
    /\ depth < MaxDepth
    /\ expr' = With(namespace, NoNode)
    /\ IF namespace = NoNode
       THEN Finish(Err("with has no namespace", ""))
            /\ UNCHANGED <<scope, new_scope, chain, depth>>
       ELSE LET n == eval_object(scope, namespace)
                t == try_into_set(n.val)
            IN  IF ~IsOk(n)
                THEN Finish(n) /\ UNCHANGED <<scope, new_scope, chain, depth>>
                ELSE IF ~IsOk(t)
                THEN Finish(t) /\ UNCHANGED <<scope, new_scope, chain, depth>>
                ELSE IF ~has_body
                THEN Finish(Err("with has no body", ""))
                     /\ UNCHANGED <<scope, new_scope, chain, depth>>
                ELSE /\ scope' = with_scope(scope, t.val)
                     /\ new_scope' = scope'
                     /\ chain' = Append(chain, WithLayer(t.val))
                     /\ depth' = depth + 1
                     /\ UNCHANGED <<pc, result>>
    /\ UNCHANGED <<ast, call>>

\* eval_object, Expr::LetIn: new_scope is cloned and the first entry installed
EvalLetIn(entry) ==
    /\ pc = "eval"
    /\ depth < MaxDepth
    /\ expr' = entry
    /\ LET r == let_entry(scope, entry) IN
       IF ~IsOk(r)
       THEN Finish(r) /\ UNCHANGED <<scope, new_scope, chain, depth>>
       ELSE /\ new_scope' = r.val
            /\ chain' = Append(chain,
                   ItemsLayer(Insert(EmptyMap, entry.attrpath[1].name,
                                     r.val.items[entry.attrpath[1].name])))
            /\ depth' = depth + 1
            /\ pc' = "let"
            /\ UNCHANGED <<scope, result>>
    /\ UNCHANGED <<ast, call>>

\* eval_object, Expr::LetIn: a further iteration of the loop over the entries
LetEntry(entry) ==
    /\ pc = "let"
    /\ depth < MaxDepth
    /\ expr' = entry
    /\ LET r == let_entry(new_scope, entry) IN
       IF ~IsOk(r)
       THEN Finish(r) /\ UNCHANGED <<scope, new_scope, chain, depth>>
       ELSE /\ new_scope' = r.val
            /\ chain' = SetLast(chain,
                   ItemsLayer(Insert(chain[Len(chain)].items,
                                     entry.attrpath[1].name,
                                     r.val.items[entry.attrpath[1].name])))
            /\ depth' = depth + 1
            /\ UNCHANGED <<pc, scope, result>>
    /\ UNCHANGED <<ast, call>>

\* eval_object, Expr::LetIn: the call eval_object(&new_scope, val) on the
\* value of the next entry
LetValue ==
    /\ pc = "let"
    /\ pc' = "eval"
    /\ scope' = new_scope
    /\ UNCHANGED <<ast, new_scope, chain, expr, result, depth, call>>

\* eval_object, Expr::LetIn: the loop is over; the call on the body
LetBody(has_body) ==
    /\ pc = "let"
    /\ IF has_body
       THEN /\ pc' = "eval"
            /\ scope' = letin_body_scope(scope, new_scope)
            /\ new_scope' = scope'
            /\ chain' = Front(chain)
            /\ UNCHANGED result
       ELSE Finish(Err("letin without body", ""))
            /\ UNCHANGED <<scope, new_scope, chain>>
    /\ UNCHANGED <<ast, expr, depth, call>>

\* eval_object, Expr::Ident, in the current frame
EvalIdent(name) ==
    /\ pc = "eval"
    /\ expr' = Ident(name)
    /\ Finish(eval_object(scope, Ident(name)))
    /\ UNCHANGED <<ast, scope, new_scope, chain, depth, call>>

\* eval_object on the body of the module, evaluated to its end
Eval(e) ==
    /\ pc = "eval"
    /\ expr' = e
    /\ Finish(eval_object(scope, e))
    /\ UNCHANGED <<ast, scope, new_scope, chain, depth, call>>

\* one call of NixSet::lookup
LookupCall(self, k) ==
    /\ call' = [tag |-> "Call", self |-> self, k |-> k,
                ret |-> NixSet_lookup(self, k)]
    /\ UNCHANGED <<pc, ast, scope, new_scope, chain, expr, result, depth>>

Main ==
    \/ \E input \in {"parse_error", "empty", "lambda"} \cup OtherKinds \cup
                    {"apply", "select", "letin", "attrset", "ident", "with"} :
          MainParse(input)
    \/ \E param \in {"none", "ident", "pattern"} : MainParam(param)
    \/ \E bind \in BindNames \cup {"none"} : MainBind(bind)
    \/ \E ident \in PatNames : MainEntry(ident)
    \/ \E has_body \in BOOLEAN : MainBody(has_body)

(***************************************************************************)
(* Spec: main, then the frames eval_object goes through below the body     *)
(* (with / let derivations), ending in the lookup of an identifier.        *)
(***************************************************************************)
Next ==
    \/ Main
    \/ \E namespace \in NsExprs \cup {NoNode}, has_body \in BOOLEAN :
          EvalWith(namespace, has_body)
    \/ \E entry \in LetEntryInputs : EvalLetIn(entry)
    \/ \E entry \in LetEntryInputs : LetEntry(entry)
    \/ LetValue
    \/ \E has_body \in BOOLEAN : LetBody(has_body)
    \/ \E name \in Names : EvalIdent(name)

Spec == Init /\ [][Next]_vars

(***************************************************************************)
(* SpecEval: main, then one call of eval_object on the whole body.         *)
(***************************************************************************)
NextEval ==
    \/ Main
    \/ \E e \in LeafExprs : Eval(e)

SpecEval == Init /\ [][NextEval]_vars

(***************************************************************************)
(* SpecLookup: NixSet::lookup applied to every set and member name.        *)
(***************************************************************************)
RECURSIVE PathsOfLen(_)
PathsOfLen(n) ==
    IF n = 0 THEN {<<>>}
    ELSE {Append(p, k) : p \in PathsOfLen(n - 1), k \in Names}

ConfigPaths == UNION {PathsOfLen(n) : n \in 1..MaxPath}

DynMaps ==
    UNION {[D -> {Set(Lib), Set(ConfigVal(<<"x">>)), Nixpkg("x"),
                  FormatFactory("json")}] : D \in SUBSET {"x", "lib"}}

SetInputs ==
    {CallpkgArgs, Lib, Nixpkgs, Config, PkgsFormats}
    \cup {ConfigVal(p) : p \in ConfigPaths}
    \cup {Dyn(m) : m \in DynMaps}

NextLookup == \E self \in SetInputs, k \in Names : LookupCall(self, k)

SpecLookup == Init /\ [][NextLookup]_vars

(***************************************************************************)
(* What the derivation history says a name should resolve to.              *)
(***************************************************************************)
MaxOf(S) == CHOOSE i \in S : \A j \in S : j <= i

\* the layers of chain that bind k explicitly (let entry or parameter)
ExplicitLayers(k) ==
    {i \in 1..Len(chain) : chain[i].kind = "items" /\ k \in DOMAIN chain[i].items}

InnermostExplicit(k) == chain[MaxOf(ExplicitLayers(k))].items[k]

\* the `with` layers of chain whose namespace has a member k
WithLayers(k) ==
    {i \in 1..Len(chain) :
        chain[i].kind = "with" /\ NixSet_lookup(chain[i].set, k) # None}

\* an identifier has been looked up in the scope the chain describes
LookedUp == pc = "done" /\ expr.kind = "ident"

(***************************************************************************)
(* Claims checked under Spec.                                              *)
(***************************************************************************)
\* C1: in every scope derived by nested with / let, a name with an explicit
\* binding (let entry or parameter) resolves to the innermost explicit
\* binding, whatever `with` namespaces entered before or after also define it.
C1_ExplicitBindingWins ==
    (LookedUp /\ ExplicitLayers(expr.name) # {})
        => result = Ok(InnermostExplicit(expr.name))

\* C2: a name without explicit binding that more than one enclosing `with`
\* namespace defines resolves to the member of the innermost of them.
C2_InnermostWithWins ==
    (/\ LookedUp
     /\ ExplicitLayers(expr.name) = {}
     /\ Cardinality(WithLayers(expr.name)) > 1)
        => result = Ok(NixSet_lookup(chain[MaxOf(WithLayers(expr.name))].set,
                                     expr.name).val)

\* C8: inside `with A; with B; ...`, entered from any scope, a name that A
\* defines and that neither B nor an explicit binding defines resolves to
\* A's member.
C8_OuterWithStillResolves ==
    (/\ LookedUp
     /\ Len(chain) >= 2
     /\ chain[Len(chain) - 1].kind = "with"
     /\ chain[Len(chain)].kind = "with"
     /\ ExplicitLayers(expr.name) = {}
     /\ NixSet_lookup(chain[Len(chain) - 1].set, expr.name) # None
     /\ NixSet_lookup(chain[Len(chain)].set, expr.name) = None)
        => result = Ok(NixSet_lookup(chain[Len(chain) - 1].set, expr.name).val)

(***************************************************************************)
(* Claims checked under SpecEval.                                          *)
(***************************************************************************)
\* the entries of a `let` are all `name = value;` with a value present
PlainLet(e) ==
    /\ e.kind = "letin"
    /\ \A i \in 1..Len(e.entries) :
          /\ e.entries[i].kind = "attrpathvalue"
          /\ e.entries[i].attrpath # NoPath
          /\ Len(e.entries[i].attrpath) = 1
          /\ e.entries[i].attrpath[1].kind = "ident"
          /\ e.entries[i].value # NoNode

LetName(e, i) == e.entries[i].attrpath[1].name

\* C3: the body of a `let` whose entries evaluate successfully is evaluated
\* with those bindings: an identifier body naming a let-bound entry yields
\* that entry's value.
C3_LetBodySeesBindings ==
    (/\ pc = "done"
     /\ PlainLet(expr)
     /\ IsOk(let_entries(scope, expr.entries, 1))
     /\ expr.body.kind = "ident"
     /\ \E i \in 1..Len(expr.entries) : LetName(expr, i) = expr.body.name)
        => result = Ok(let_entries(scope, expr.entries, 1).val.items[expr.body.name])

\* the format kind a value is tagged with
FormatTag(v) ==
    CASE v.tag = "Nixpkg" -> v.pkg
      [] v.tag = "FormatFactory" -> v.format_type
      [] OTHER -> ""

\* C4: applying a FormatFactory to an attribute set succeeds with a result
\* tagged with the factory's format kind; applying any other callee fails
\* naming the callee.
C4_FormatFactoryApplies ==
    (/\ pc = "done"
     /\ expr.kind = "apply"
     /\ expr.lambda # NoNode
     /\ expr.argument # NoNode
     /\ IsOk(eval_object(scope, expr.lambda))
     /\ IsOk(eval_object(scope, expr.argument)))
        => LET f == eval_object(scope, expr.lambda).val
               a == eval_object(scope, expr.argument).val
           IN  /\ (f.tag = "FormatFactory" /\ a.tag = "Set")
                     => (IsOk(result) /\ FormatTag(result.val) = f.format_type)
               /\ f.tag # "FormatFactory"
                     => result = ErrObj("cannot apply lambda of type", f)

\* C5: eval_object ends in a value or a returned failure and never aborts;
\* an expression kind without an arm of its own is a failure naming the kind.
C5_NeverPanics ==
    pc = "done"
        => /\ result.tag \in {"Ok", "Err"}
           /\ expr.kind \in OtherKinds
                 => result = Err("cannot eval object of type", expr.kind)

\* `{ a.b = x; a.c = y; }`
Dotted(e) ==
    /\ e.kind = "attrset"
    /\ Len(e.entries) = 2
    /\ \A i \in 1..2 :
          /\ e.entries[i].kind = "attrpathvalue"
          /\ e.entries[i].attrpath # NoPath
          /\ Len(e.entries[i].attrpath) = 2
          /\ \A j \in 1..2 : e.entries[i].attrpath[j].kind = "ident"
          /\ e.entries[i].value # NoNode
    /\ e.entries[1].attrpath[1] = e.entries[2].attrpath[1]
    /\ e.entries[1].attrpath[2] # e.entries[2].attrpath[2]

\* `{ a = { b = x; c = y; }; }` written for the dotted literal e
Nested(e) ==
    AttrSet(FALSE,
        <<AttrpathValue(<<e.entries[1].attrpath[1]>>,
            AttrSet(FALSE,
                <<AttrpathValue(<<e.entries[1].attrpath[2]>>, e.entries[1].value),
                  AttrpathValue(<<e.entries[2].attrpath[2]>>, e.entries[2].value)>>))>>)

\* C6: `{ a.b = x; a.c = y; }` evaluates to the Dynamic set whose member a is
\* the Dynamic set { b -> x, c -> y }, the same as `{ a = { b = x; c = y; }; }`.
C6_DottedPathsMerge ==
    (/\ pc = "done"
     /\ Dotted(expr)
     /\ IsOk(eval_object(scope, expr.entries[1].value))
     /\ IsOk(eval_object(scope, expr.entries[2].value)))
        => /\ result =
                Ok(Set(Dyn(Insert(EmptyMap, expr.entries[1].attrpath[1].name,
                    Set(Dyn(Insert(Insert(EmptyMap,
                        expr.entries[1].attrpath[2].name,
                        eval_object(scope, expr.entries[1].value).val),
                        expr.entries[2].attrpath[2].name,
                        eval_object(scope, expr.entries[2].value).val)))))))
           /\ result = eval_object(scope, Nested(expr))

\* the names of the destructured fields main has read
FieldsRead == {ast.pat_entries[i] : i \in 1..Len(ast.pat_entries)}

\* C9: main binds every destructured field to its own namespace and the `@`
\* name to CallpkgArgs; a field other than lib, pkgs, config fails naming
\* it, before the body is evaluated; a top-level expression that is no
\* function, or whose parameter is a plain identifier, fails.
C9_ModuleEntry ==
    /\ \A f \in FieldsRead \cap {"lib", "pkgs", "config"} :
          /\ f \in DOMAIN scope.items
          /\ scope.items[f] = Set(CASE f = "lib" -> Lib
                                    [] f = "pkgs" -> Nixpkgs
                                    [] f = "config" -> Config)
    /\ (ast.pat_bind \notin {Unread, "none", ""} /\ ast.pat_bind \notin FieldsRead)
          => /\ ast.pat_bind \in DOMAIN scope.items
             /\ scope.items[ast.pat_bind] = Set(CallpkgArgs)
    /\ \A i \in 1..Len(ast.pat_entries) :
          ast.pat_entries[i] \notin {"lib", "pkgs", "config", ""}
             => /\ pc = "done"
                /\ result = Err("unknown callPackage arg", ast.pat_entries[i])
                /\ expr = NoNode
    /\ ast.expr \notin {Unread, "parse_error", "empty", "lambda"}
          => /\ pc = "done"
             /\ result = Err("file does not contain a lambda", "")
             /\ expr = NoNode
    /\ ast.param = "ident"
          => /\ pc = "done"
             /\ result = Err("top-level lambda does not destructure its argument", "")
             /\ expr = NoNode

C9_Witness ==
    /\ pc = "done"
    /\ ast.pat_bind = "args"
    /\ ast.pat_entries = <<"pkgs", "x">>
    /\ scope.items = [k \in {"args", "pkgs"} |->
                        IF k = "args" THEN Set(CallpkgArgs) ELSE Set(Nixpkgs)]
    /\ result = Err("unknown callPackage arg", "x")

\* C10: a `let` entry whose value names itself or a sibling bound later in
\* the block makes the evaluation fail; it is never resolved to a binding of
\* that name from an enclosing scope.
C10_ForwardReferenceFails ==
    (/\ pc = "done"
     /\ PlainLet(expr)
     /\ \E i \in 1..Len(expr.entries) :
          /\ expr.entries[i].value.kind = "ident"
          /\ \E j \in i..Len(expr.entries) :
                LetName(expr, j) = expr.entries[i].value.name
          /\ \A j \in 1..(i - 1) :
                LetName(expr, j) # expr.entries[i].value.name)
        => result.tag = "Err"

(***************************************************************************)
(* Claims checked under SpecLookup.                                        *)
(***************************************************************************)
\* C7 as stated: NixSet::lookup returns a value for every member name on
\* every variant other than Dyn and Lib.
C7_TotalExceptDynLib ==
    (call.tag = "Call" /\ call.self.tag \notin {"Dyn", "Lib"})
        => call.ret # None

\* C7, amended: NixSet::lookup returns a value for every member name on
\* Nixpkgs, Config, ConfigVal and PkgsFormats (Nixpkg(name), or the
\* PkgsFormats set for `formats`; ConfigVal([name]); ConfigVal(p ++ [name]);
\* FormatFactory(name)); CallpkgArgs returns its table's namespace for lib,
\* pkgs, config and absent for any other name; only Dyn, Lib and CallpkgArgs
\* may return absent.
C7_LookupTotality ==
    call.tag = "Call" =>
        /\ call.self.tag \notin {"Dyn", "Lib", "CallpkgArgs"} => call.ret # None
        /\ call.self.tag = "Nixpkgs" =>
              call.ret = IF call.k = "formats"
                         THEN [tag |-> "Some", val |-> [tag |-> "Set", set |-> [tag |-> "PkgsFormats"]]]
                         ELSE [tag |-> "Some", val |-> [tag |-> "Nixpkg", pkg |-> call.k]]
        /\ call.self.tag = "Config" =>
              call.ret = [tag |-> "Some", val |->
                            [tag |-> "Set", set |-> [tag |-> "ConfigVal", path |-> <<call.k>>]]]
        /\ call.self.tag = "ConfigVal" =>
              /\ call.ret.tag = "Some"
              /\ call.ret.val.tag = "Set"
              /\ call.ret.val.set.tag = "ConfigVal"
              /\ call.ret.val.set.path = call.self.path \o <<call.k>>
        /\ call.self.tag = "PkgsFormats" =>
              call.ret = [tag |-> "Some", val |->
                            [tag |-> "FormatFactory", format_type |-> call.k]]
        /\ call.self.tag = "CallpkgArgs" =>
              call.ret = CASE call.k = "lib" -> Some(Set(Lib))
                           [] call.k = "pkgs" -> Some(Set(Nixpkgs))
                           [] call.k = "config" -> Some(Set(Config))
                           [] OTHER -> None

C7_Witness ==
    /\ call.tag = "Call"
    /\ call.self = CallpkgArgs
    /\ call.k = "x"
    /\ call.ret = None

====
